---------------------------- MODULE Spec2Model ----------------------------
(***************************************************************************)
(* Model of the storefront bot's transaction code (repository fdygg/Yy):   *)
(* the balance ledger, the stock pool and the purchase handler, as they    *)
(* are written in src/ext/trx.py, src/ext/balance_manager.py,              *)
(* src/ext/product_manager.py and src/ext/live.py.                         *)
(*                                                                         *)
(* The persisted state is the SQLite file shop.db.  Each table is a        *)
(* function from its primary key to the row; a row that does not exist is  *)
(* a key outside the function's domain.  Every handler opens connections   *)
(* of its own; what a connection wrote becomes visible to the others at    *)
(* its commit, so a write transaction is one step that either commits or   *)
(* fails and is rolled back.  A handler is a process: pc is the statement  *)
(* it is at, loc holds its local variables.                                *)
(*                                                                         *)
(* Two schedulings are specified.  Spec is the bot as it runs: one asyncio *)
(* event loop, where a handler is left only at an await that really        *)
(* suspends (a Discord call).  SpecInterleaved lets handlers interleave at *)
(* every database statement, which is what several writers of one shop.db  *)
(* (a second bot process, the donation server's thread) produce.           *)
(***************************************************************************)
EXTENDS Integers, Sequences, FiniteSets, TLC

VARIABLES user_growid, users, products, product_stock, transaction_log,
          balance_transactions, pc, loc, sched, last_use, now

vars == <<user_growid, users, products, product_stock, transaction_log,
          balance_transactions, pc, loc, sched, last_use, now>>

db == <<user_growid, users, products, product_stock, transaction_log,
        balance_transactions>>

-----------------------------------------------------------------------------
(* Bounds and input domains *)

\* number of handlers that may be in flight
NumProcs == 2
\* most unused stock rows a product starts with
MaxStock == 2
\* largest quantity typed into the buy modal
MaxQty == 2

Procs == 1..NumProcs
UserIds == {"u1", "u2"}
GrowIds == {"g1", "g2"}
Codes == {"A"}
Prices == {30, 50}
Quantities == 0..MaxQty

Bal(wl, dl, bgl) == [wl |-> wl, dl |-> dl, bgl |-> bgl]
ZeroBal == Bal(0, 0, 0)
InitBalances == {Bal(50, 0, 0), Bal(0, 0, 1)}
Deltas == {Bal(-30, 0, 0), Bal(30, 0, 0)}
Amounts == {Bal(30, 0, 0)}
FileLines == {<<"">>, <<"x", "", "y">>}

-----------------------------------------------------------------------------
(* Pure functions *)

get_total_wls(balance_wl, balance_dl, balance_bgl) ==
    balance_wl + (balance_dl * 100) + (balance_bgl * 10000)

Total(b) == get_total_wls(b.wl, b.dl, b.bgl)

\* The numbers format_balance prints, in the order it prints them.
format_balance(balance_wl, balance_dl, balance_bgl) ==
    <<balance_wl, balance_dl, balance_dl * 100, balance_bgl,
      balance_bgl * 10000, get_total_wls(balance_wl, balance_dl, balance_bgl)>>

Plus(b, d) == Bal(b.wl + d.wl, b.dl + d.dl, b.bgl + d.bgl)
Minus(b, d) == Bal(b.wl - d.wl, b.dl - d.dl, b.bgl - d.bgl)

\* A break-down that turns every BGL into DLs, whatever is needed.
RECURSIVE ConvertBglAll(_, _)
ConvertBglAll(remaining, b) ==
    IF b.bgl > 0
    THEN ConvertBglAll(remaining, Bal(b.wl, b.dl + 100, b.bgl - 1))
    ELSE b

RECURSIVE ConvertBgl(_, _)
ConvertBgl(remaining, b) ==
    IF remaining > (b.wl + b.dl * 100) /\ b.bgl > 0
    THEN ConvertBgl(remaining, Bal(b.wl, b.dl + 100, b.bgl - 1))
    ELSE b

\* A break-down that turns every DL into WLs, whatever is needed.
RECURSIVE ConvertDlAll(_, _)
ConvertDlAll(remaining, b) ==
    IF b.dl > 0
    THEN ConvertDlAll(remaining, Bal(b.wl + 100, b.dl - 1, b.bgl))
    ELSE b

\* A break-down that turns no DL into WLs.
ConvertDlNone(remaining, b) == b

RECURSIVE ConvertDl(_, _)
ConvertDl(remaining, b) ==
    IF remaining > b.wl /\ b.dl > 0
    THEN ConvertDl(remaining, Bal(b.wl + 100, b.dl - 1, b.bgl))
    ELSE b

\* The balance after both break-down loops, before the WLs are deducted.
Converted(remaining, b) == ConvertDl(remaining, ConvertBgl(remaining, b))

ConversionOk(remaining, b) == Converted(remaining, b).wl >= remaining

\* A debit that breaks the balance down and deducts nothing.
DeductedNothing(remaining, b) == Converted(remaining, b)

Deducted(remaining, b) ==
    LET c == Converted(remaining, b)
    IN  Bal(c.wl - remaining, c.dl, c.bgl)


-----------------------------------------------------------------------------
(* State *)

\* A product_stock row as the INSERT of add_stock_from_file leaves it.  writes
\* counts the UPDATEs that set used, used_by and used_at on the row.
NewStockRow(product_code, content) ==
    [product_code |-> product_code, content |-> content, used |-> 0,
     used_by |-> "NULL", writes |-> 0]

InitContents == <<"c1", "c2", "c3", "c4">>

InitStock(n) == [i \in 1..n |-> NewStockRow("A", InitContents[i])]

\* A table without rows.
EmptyTable == [k \in {} |-> 0]

Stored(g) == IF g \in DOMAIN users THEN users[g] ELSE ZeroBal

\* A handler's local variables.  The last five fields are not variables of
\* the code, and nor are fresh, inserted and raised: they record what the handler's commits changed in the store
\* (wrote: its balance write was committed; applied: the stored balance after
\* that commit minus the stored balance before it; marked: the rows its
\* UPDATEs of product_stock hit; flipped: how many of them were unused;
\* before: the users table when transfer_balance was called; message: the
\* confirmation message the reaction that woke the handler was added to;
\* dropped: by how much products.stock fell; fresh: how many of the lines
\* of add_stock_from_file were not a content of the product's pool;
\* inserted: how many rows it inserted; raised: by how much products.stock
\* rose).
NoLoc ==
    [op |-> "none", user |-> "-", code |-> "-", quantity |-> 0,
     growid |-> "-", price |-> 0, balance |-> ZeroBal, new |-> ZeroBal,
     items |-> <<>>, old |-> ZeroBal, found |-> FALSE, delta |-> ZeroBal,
     type |-> "-",
     lines |-> <<>>, result |-> "none", sent |-> <<>>, shown |-> <<>>,
     written |-> ZeroBal, wrote |-> FALSE, applied |-> ZeroBal,
     marked |-> {}, flipped |-> 0,
     dropped |-> 0,
     added_count |-> 0, fresh |-> 0, inserted |-> 0, raised |-> 0,
     current_time |-> 0, last_use |-> 0,
     to |-> "-", before |-> EmptyTable, reaction |-> "-", message |-> 0]

\* The tables after setup_database, some GrowIDs set, a product added and
\* stocked and some balance granted: every linked GrowID has its users row
\* (SetGrowIDModal inserts both), and a product's counter is the number of
\* its rows.
InitDB ==
    /\ \E linked \in {{"u1"}, {"u1", "u2"}} :
         /\ user_growid = [u \in linked |-> IF u = "u1" THEN "g1" ELSE "g2"]
         /\ \E b \in InitBalances :
              users = [g \in {(IF u = "u1" THEN "g1" ELSE "g2") : u \in linked}
                         |-> IF g = "g1" THEN b ELSE Bal(50, 0, 0)]
    /\ \E n \in 0..MaxStock, price \in Prices :
         /\ product_stock = InitStock(n)
         /\ products \in {[c \in Codes |-> [price |-> price, stock |-> n]]}
                           \cup (IF n = 0 /\ price = 30 THEN {EmptyTable} ELSE {})
    /\ transaction_log = <<>>
    /\ balance_transactions = <<>>
    /\ pc = [p \in Procs |-> "idle"]
    /\ loc = [p \in Procs |-> NoLoc]


\* live.py: COOLDOWN_SECONDS = 3
COOLDOWN_SECONDS == 3

\* The clock when the bot starts.  datetime.utcnow().timestamp() is far more
\* than COOLDOWN_SECONDS after 0, the time check_cooldown takes for a user
\* who has no entry in _last_use.
StartTime == COOLDOWN_SECONDS

\* StockView._last_use = {} and the clock, at the start.
NoButtonUsed == last_use = EmptyTable /\ now = StartTime

-----------------------------------------------------------------------------
(* Scheduling *)

\* The statements between which a handler cannot be left on the event loop:
\* get_user_balance and update_balance are coroutines that never suspend,
\* and sqlite3 calls block.  A handler is left only before it starts, at
\* user.send, at the admin's confirmation of a deletion or a reset (waiting
\* for the reaction, or woken by it and not yet resumed), and when it has
\* returned.
Suspended == {"idle", "pp_send", "ad_confirm", "ad_woken", "done"}

\* A scheduling in which a handler is also left between its SELECT of the
\* stock rows and its call of update_balance.
TurnAfterSelect(p) ==
    \/ sched = "interleaved"
    \/ \A q \in Procs \ {p} : pc[q] \in Suspended \cup {"ub_read"}

Turn(p) ==
    \/ sched = "interleaved"
    \/ \A q \in Procs \ {p} : pc[q] \in Suspended

\* Handler slots are taken in order: the slots are alike, so which one a
\* handler runs in does not matter.
Free(p) == pc[p] = "idle" /\ \A q \in 1..(p - 1) : pc[q] # "idle"

Return(p, result) ==
    /\ pc' = [pc EXCEPT ![p] = "done"]
    /\ loc' = [loc EXCEPT ![p].result = result]

Goto(p, label, l) ==
    /\ pc' = [pc EXCEPT ![p] = label]
    /\ loc' = [loc EXCEPT ![p] = l]

-----------------------------------------------------------------------------
(* process_purchase, entered from BuyModal.on_submit *)

Upper(code) == IF code = "a" THEN "A" ELSE code

\* SELECT growid FROM user_growid WHERE user_id = ?; "NULL" when fetchone()
\* returns None.
GrowIdOf(table, u) == IF u \in DOMAIN table THEN table[u] ELSE "NULL"

\* A lookup that takes every user for linked.
NotLinkedNever(user_data) == FALSE

\* if not user_data: return "Please set your GrowID first"
NotLinked(user_data) == user_data = "NULL"

\* process_purchase from its entry to the GrowID lookup.
ProcessPurchaseCall(p, u, code, q) ==
    /\ Free(p)
    /\ Turn(p)
    /\ LET l == [NoLoc EXCEPT !.op = "purchase", !.user = u,
                              !.code = code, !.quantity = q]
           user_data == GrowIdOf(user_growid, u)
       IN  IF NotLinked(user_data)
           THEN Goto(p, "done", [l EXCEPT !.result = "err_growid"])
           ELSE Goto(p, "pp_product", [l EXCEPT !.growid = user_data])
    /\ UNCHANGED <<db, sched, last_use, now>>

\* BuyModal.on_submit: the quantity check, then the call of process_purchase
\* with the product code in upper case.
BuySubmit(p, u, text, q) ==
    IF q <= 0
    THEN /\ Free(p)
         /\ Turn(p)
         /\ Goto(p, "done", [NoLoc EXCEPT !.op = "purchase", !.user = u,
                                          !.code = Upper(text), !.quantity = q,
                                          !.result = "err_quantity"])
         /\ UNCHANGED <<db, sched, last_use, now>>
    ELSE ProcessPurchaseCall(p, u, Upper(text), q)

\* SELECT name, price, stock, description FROM products, and the stock check.
PPProduct(p) ==
    /\ pc[p] = "pp_product"
    /\ Turn(p)
    /\ LET l == loc[p]
       IN  IF l.code \notin DOMAIN products
           THEN Return(p, "err_product")
           ELSE IF products[l.code].stock < l.quantity
           THEN Return(p, "err_stock")
           ELSE Goto(p, "pp_balance", [l EXCEPT !.price = products[l.code].price])
    /\ UNCHANGED <<db, sched, last_use, now>>

required_wls(l) == l.price * l.quantity

\* A check that takes the total for a number of DLs.
InsufficientBalanceInDl(total_wls, required) == total_wls * 100 < required

\* if total_wls < required_wls: return "Insufficient balance!"
InsufficientBalance(total_wls, required) == total_wls < required

\* get_user_balance (which inserts the users row when there is none), the
\* balance check and the break-down of the balance.
PPBalance(p) ==
    /\ pc[p] = "pp_balance"
    /\ Turn(p)
    /\ LET l == loc[p]
           balance == IF l.growid \in DOMAIN users THEN users[l.growid] ELSE ZeroBal
       IN  /\ users' = IF l.growid \in DOMAIN users THEN users
                       ELSE (l.growid :> ZeroBal) @@ users
           /\ IF InsufficientBalance(Total(balance), required_wls(l))
              THEN Goto(p, "done", [l EXCEPT !.balance = balance, !.result = "err_balance"])
              ELSE IF ~ConversionOk(required_wls(l), balance)
              THEN Goto(p, "done", [l EXCEPT !.balance = balance, !.result = "err_conversion"])
              ELSE Goto(p, "pp_select",
                        [l EXCEPT !.balance = balance,
                                  !.new = Deducted(required_wls(l), balance)])
    /\ UNCHANGED <<user_growid, products, product_stock, transaction_log,
                   balance_transactions, sched, last_use, now>>

\* A selection without the condition used = 0.
UnusedIdsAnyUse(stock, code) ==
    {i \in DOMAIN stock : stock[i].product_code = code}

\* The ids of the product's unused rows, in rowid order (SQLite's table scan).
UnusedIds(stock, code) ==
    {i \in DOMAIN stock : stock[i].product_code = code /\ stock[i].used = 0}

\* The first n of the ids in rowid order, and all of them when n is
\* negative (LIMIT with a negative number sets no limit).
FirstIds(ids, n) ==
    LET before(i) == Cardinality({j \in ids : j < i})
        chosen == IF n < 0 THEN ids ELSE {i \in ids : before(i) < n}
    IN  [k \in 1..Cardinality(chosen) |->
            CHOOSE i \in chosen : before(i) = k - 1]

\* SELECT id, content FROM product_stock WHERE product_code = ? AND used = 0
\* LIMIT ?
SelectItems(stock, code, quantity) ==
    LET ids == FirstIds(UnusedIds(stock, code), quantity)
    IN  [k \in 1..Len(ids) |-> [id |-> ids[k], content |-> stock[ids[k]].content]]

\* A check that passes any selection that is not empty.
TooFewItemsOnlyNone(items, quantity) == Len(items) = 0

\* if len(items) < quantity: return "Not enough stock available!"
TooFewItems(items, quantity) == Len(items) < quantity

PPSelect(p) ==
    /\ pc[p] = "pp_select"
    /\ Turn(p)
    /\ LET l == loc[p]
           items == SelectItems(product_stock, l.code, l.quantity)
       IN  IF TooFewItems(items, l.quantity)
           THEN Return(p, "err_items")
           ELSE Goto(p, "ub_read",
                     [l EXCEPT !.items = items, !.delta = Minus(l.new, l.balance),
                               !.type = "PURCHASE"])
    /\ UNCHANGED <<db, sched, last_use, now>>


-----------------------------------------------------------------------------
(* update_balance: called by process_purchase, and an entry point of its own *)

UpdateBalanceCall(p, g, d, type) ==
    /\ Free(p)
    /\ Turn(p)
    /\ Goto(p, "ub_read", [NoLoc EXCEPT !.op = "update_balance", !.growid = g,
                                        !.delta = d, !.type = type])
    /\ UNCHANGED <<db, sched, last_use, now>>

\* SELECT balance_wl, balance_dl, balance_bgl FROM users WHERE growid = ?
UBRead(p) ==
    /\ pc[p] = "ub_read"
    /\ Turn(p)
    /\ LET l == loc[p]
       IN  Goto(p, "ub_write",
                [l EXCEPT !.old = IF l.growid \in DOMAIN users
                                  THEN users[l.growid] ELSE ZeroBal])
    /\ UNCHANGED <<db, sched, last_use, now>>

\* The new balance update_balance computes from the balance it read.
UBNew(old_balance, d) == Plus(old_balance, d)

\* An entry whose amount is the size of the change, without its sign.
LogEntryUnsigned(growid, d, type, old_balance, new) ==
    [growid |-> growid,
     amount |-> IF get_total_wls(d.wl, d.dl, d.bgl) < 0
                THEN 0 - get_total_wls(d.wl, d.dl, d.bgl)
                ELSE get_total_wls(d.wl, d.dl, d.bgl),
     type |-> type,
     old_balance |-> format_balance(old_balance.wl, old_balance.dl, old_balance.bgl),
     new_balance |-> format_balance(new.wl, new.dl, new.bgl)]

LogEntry(growid, d, type, old_balance, new) ==
    [growid |-> growid, amount |-> get_total_wls(d.wl, d.dl, d.bgl),
     type |-> type,
     old_balance |-> format_balance(old_balance.wl, old_balance.dl, old_balance.bgl),
     new_balance |-> format_balance(new.wl, new.dl, new.bgl)]

\* UPDATE users SET balance_wl = ?, balance_dl = ?, balance_bgl = ? WHERE
\* growid = ?
UBWrite(table, g, new) ==
    IF g \in DOMAIN table THEN [table EXCEPT ![g] = new] ELSE table

\* The change of the stored balance of g from table to after.
Applied(table, after, g) ==
    IF g \in DOMAIN table /\ g \in DOMAIN after
    THEN Minus(after[g], table[g])
    ELSE IF g \in DOMAIN after THEN after[g] ELSE ZeroBal

\* UPDATE users, INSERT INTO transaction_log, commit; new is what
\* update_balance returns.
UBCommit(p) ==
    /\ pc[p] = "ub_write"
    /\ Turn(p)
    /\ LET l == loc[p]
           g == l.growid
           new == UBNew(l.old, l.delta)
           done == [l EXCEPT !.wrote = TRUE, !.written = new,
                             !.applied = Applied(users, UBWrite(users, g, new), g)]
       IN  /\ users' = UBWrite(users, g, new)
           /\ transaction_log' =
                Append(transaction_log, LogEntry(g, l.delta, l.type, l.old, new))
           /\ IF l.op = "purchase"
              THEN Goto(p, "pp_mark", done)
              ELSE Goto(p, "done", [done EXCEPT !.result = "ok"])
    /\ UNCHANGED <<user_growid, products, product_stock, balance_transactions,
                   sched, last_use, now>>

\* A statement of update_balance raises (the database is locked, an I/O
\* error): rollback, raise e.  In process_purchase the inner except returns
\* the error message.
UBFail(p) ==
    /\ pc[p] = "ub_write"
    /\ Turn(p)
    /\ Return(p, IF loc[p].op = "purchase" THEN "err_purchase" ELSE "raised")
    /\ UNCHANGED <<db, sched, last_use, now>>

-----------------------------------------------------------------------------
(* process_purchase, after the debit *)

\* UPDATE product_stock SET used = 1, used_by = ?, used_at = ? WHERE id = ?
\* for each selected item.
MarkUsed(stock, ids, user) ==
    [i \in DOMAIN stock |->
        IF i \in ids
        THEN [stock[i] EXCEPT !.used = 1, !.used_by = user,
                              !.writes = stock[i].writes + 1]
        ELSE stock[i]]

\* A counter update that takes one off, whatever the quantity.
DropStockByOne(prods, code, quantity) ==
    IF code \in DOMAIN prods
    THEN [prods EXCEPT ![code].stock = prods[code].stock - 1]
    ELSE prods

\* UPDATE products SET stock = stock - ? WHERE code = ?
DropStock(prods, code, quantity) ==
    IF code \in DOMAIN prods
    THEN [prods EXCEPT ![code].stock = prods[code].stock - quantity]
    ELSE prods

ItemIds(items) == {items[k].id : k \in DOMAIN items}

\* The two updates and conn.commit().  marked, flipped and dropped record
\* what this commit changed.
PPMarkCommit(p) ==
    /\ pc[p] = "pp_mark"
    /\ Turn(p)
    /\ LET l == loc[p]
           ids == ItemIds(l.items)
       IN  /\ product_stock' = MarkUsed(product_stock, ids, l.user)
           /\ products' = DropStock(products, l.code, l.quantity)
           /\ Goto(p, "pp_send",
                   [l EXCEPT !.marked = ids,
                             !.flipped = Cardinality({i \in ids : product_stock[i].used = 0}),
                             !.dropped = IF l.code \in DOMAIN products
                                         THEN l.quantity ELSE 0])
    /\ UNCHANGED <<user_growid, users, transaction_log, balance_transactions,
                   sched, last_use, now>>

\* One of the updates or the commit raises: conn.rollback() undoes this
\* connection's writes, and the error message is returned.
PPMarkFail(p) ==
    /\ pc[p] = "pp_mark"
    /\ Turn(p)
    /\ Return(p, "err_purchase")
    /\ UNCHANGED <<db, sched, last_use, now>>

Contents(items) == [k \in DOMAIN items |-> items[k].content]

\* The item contents carried by the returned message: each of the three
\* messages names the product, the quantity, the price and the new balance,
\* or the error, and none of them the contents.
ResultItems(outcome, items) == <<>>

\* user.send: delivered, refused (discord.Forbidden), or another error, which
\* the inner except catches.
PPSend(p) ==
    /\ pc[p] = "pp_send"
    /\ Turn(p)
    /\ \E outcome \in {"sent", "forbidden", "error"} :
         Goto(p, "done",
              [loc[p] EXCEPT !.sent = IF outcome = "sent"
                                      THEN Contents(loc[p].items) ELSE <<>>,
                             !.shown = ResultItems(outcome, loc[p].items),
                             !.result = CASE outcome = "sent" -> "ok"
                                          [] outcome = "forbidden" -> "ok_no_dm"
                                          [] OTHER -> "err_purchase"])
    /\ UNCHANGED <<db, sched, last_use, now>>


-----------------------------------------------------------------------------
(* BalanceManager.add_balance and remove_balance *)

\* add_balance up to its SELECT of the current balance.
AddBalanceCall(p, g, a) ==
    /\ Free(p)
    /\ Turn(p)
    /\ Goto(p, "ab_write",
            [NoLoc EXCEPT !.op = "add_balance", !.growid = g, !.delta = a,
                          !.found = (g \in DOMAIN users),
                          !.old = IF g \in DOMAIN users THEN users[g] ELSE ZeroBal])
    /\ UNCHANGED <<db, sched, last_use, now>>

TxEntry(growid, type, a) ==
    [growid |-> growid, type |-> type, amount_wl |-> a.wl,
     amount_dl |-> a.dl, amount_bgl |-> a.bgl]

\* The users table after add_balance's UPDATE (a row was read) or INSERT.
ABWrite(table, g, found, current, a) ==
    IF found
    THEN IF g \in DOMAIN table THEN [table EXCEPT ![g] = Plus(current, a)] ELSE table
    ELSE (g :> a) @@ table

\* The write, the balance_transactions entry and the commit.  The INSERT of a
\* row that exists by now raises, as any statement may (the users table that
\* setup_database creates has no updated_at column and there is no
\* balance_transactions table: on that schema every call ends in ABFail).
ABCommit(p) ==
    /\ pc[p] = "ab_write"
    /\ Turn(p)
    /\ LET l == loc[p]
       IN  /\ l.found \/ l.growid \notin DOMAIN users
           /\ users' = ABWrite(users, l.growid, l.found, l.old, l.delta)
           /\ balance_transactions' =
                Append(balance_transactions, TxEntry(l.growid, "ADD", l.delta))
           /\ Goto(p, "done",
                   [l EXCEPT !.result = "True", !.wrote = TRUE,
                             !.applied = Applied(users,
                                 ABWrite(users, l.growid, l.found, l.old, l.delta),
                                 l.growid)])
    /\ UNCHANGED <<user_growid, products, product_stock, transaction_log, sched, last_use, now>>

ABFail(p) ==
    /\ pc[p] = "ab_write"
    /\ Turn(p)
    /\ Return(p, "False")
    /\ UNCHANGED <<db, sched, last_use, now>>

\* remove_balance's check that no balance would go negative.
WouldGoNegative(new) == new.wl < 0 \/ new.dl < 0 \/ new.bgl < 0

\* remove_balance up to its check of the new balance.
RemoveBalanceCall(p, g, a) ==
    /\ Free(p)
    /\ Turn(p)
    /\ LET l == [NoLoc EXCEPT !.op = "remove_balance", !.growid = g, !.delta = a]
       IN  IF g \notin DOMAIN users
           THEN Goto(p, "done", [l EXCEPT !.result = "False"])
           ELSE IF WouldGoNegative(Minus(users[g], a))
           THEN Goto(p, "done", [l EXCEPT !.old = users[g], !.result = "False"])
           ELSE Goto(p, "rb_write", [l EXCEPT !.found = TRUE, !.old = users[g],
                                              !.new = Minus(users[g], a)])
    /\ UNCHANGED <<db, sched, last_use, now>>

RBCommit(p) ==
    /\ pc[p] = "rb_write"
    /\ Turn(p)
    /\ LET l == loc[p]
       IN  /\ users' = UBWrite(users, l.growid, l.new)
           /\ balance_transactions' =
                Append(balance_transactions, TxEntry(l.growid, "REMOVE", l.delta))
           /\ Goto(p, "done",
                   [l EXCEPT !.result = "True", !.wrote = TRUE,
                             !.applied = Applied(users,
                                 UBWrite(users, l.growid, l.new), l.growid)])
    /\ UNCHANGED <<user_growid, products, product_stock, transaction_log, sched, last_use, now>>

RBFail(p) ==
    /\ pc[p] = "rb_write"
    /\ Turn(p)
    /\ Return(p, "False")
    /\ UNCHANGED <<db, sched, last_use, now>>

-----------------------------------------------------------------------------
(* add_stock_from_file, ProductManager.add_product, SetGrowIDModal.on_submit *)

\* [line.strip() for line in content.split('\n') if line.strip()]
StripLines(raw) == SelectSeq(raw, LAMBDA line : line # "")

\* add_stock_from_file up to its check that the product exists.
AddStockCall(p, code, raw) ==
    /\ Free(p)
    /\ Turn(p)
    /\ LET l == [NoLoc EXCEPT !.op = "add_stock", !.code = code,
                              !.lines = StripLines(raw)]
       IN  IF l.lines = <<>>
           THEN Goto(p, "done", [l EXCEPT !.result = "err_empty"])
           ELSE IF code \notin DOMAIN products
           THEN Goto(p, "done", [l EXCEPT !.result = "err_product"])
           ELSE Goto(p, "as_insert", l)
    /\ UNCHANGED <<db, sched, last_use, now>>

\* The rows the loop inserts, one for each line.
InsertedRows(code, lines) == [k \in DOMAIN lines |-> NewStockRow(code, lines[k])]

\* UPDATE products SET stock = stock + ? WHERE code = ?
RaiseStock(prods, code, added_count) ==
    IF code \in DOMAIN prods
    THEN [prods EXCEPT ![code].stock = prods[code].stock + added_count]
    ELSE prods

\* The contents of the product's rows.
Pool(stock, code) ==
    {stock[i].content : i \in {j \in DOMAIN stock : stock[j].product_code = code}}

\* added_count: one for every line.
AddedCount(lines) == Len(lines)

ASCommit(p) ==
    /\ pc[p] = "as_insert"
    /\ Turn(p)
    /\ LET l == loc[p]
           rows == InsertedRows(l.code, l.lines)
           added_count == AddedCount(l.lines)
       IN  /\ product_stock' = product_stock \o rows
           /\ products' = RaiseStock(products, l.code, added_count)
           /\ Goto(p, "done",
                   [l EXCEPT !.result = "ok", !.added_count = added_count,
                             !.fresh = Cardinality({k \in DOMAIN l.lines :
                                          l.lines[k] \notin Pool(product_stock, l.code)}),
                             !.inserted = Len(rows),
                             !.raised = IF l.code \in DOMAIN products
                                        THEN added_count ELSE 0])
    /\ UNCHANGED <<user_growid, users, transaction_log, balance_transactions,
                   sched, last_use, now>>

ASFail(p) ==
    /\ pc[p] = "as_insert"
    /\ Turn(p)
    /\ Return(p, "err_db")
    /\ UNCHANGED <<db, sched, last_use, now>>

\* ProductManager.add_product up to its check that the code is free.
AddProductCall(p, code, price) ==
    /\ Free(p)
    /\ Turn(p)
    /\ LET l == [NoLoc EXCEPT !.op = "add_product", !.code = code, !.price = price]
       IN  IF code \in DOMAIN products
           THEN Goto(p, "done", [l EXCEPT !.result = "err_exists"])
           ELSE Goto(p, "ap_insert", l)
    /\ UNCHANGED <<db, sched, last_use, now>>

\* INSERT INTO products (...) VALUES (?, ?, ?, ?, 0) and the commit; the
\* INSERT of a code that exists by now raises.
APCommit(p) ==
    /\ pc[p] = "ap_insert"
    /\ Turn(p)
    /\ LET l == loc[p]
       IN  /\ l.code \notin DOMAIN products
           /\ products' = (l.code :> [price |-> l.price, stock |-> 0]) @@ products
           /\ Goto(p, "done", [l EXCEPT !.result = "ok"])
    /\ UNCHANGED <<user_growid, users, product_stock, transaction_log,
                   balance_transactions, sched, last_use, now>>

APFail(p) ==
    /\ pc[p] = "ap_insert"
    /\ Turn(p)
    /\ Return(p, "err_db")
    /\ UNCHANGED <<db, sched, last_use, now>>

\* SetGrowIDModal.on_submit up to its check that no other user holds the
\* GrowID.
SetGrowIDCall(p, u, g) ==
    /\ Free(p)
    /\ Turn(p)
    /\ LET l == [NoLoc EXCEPT !.op = "set_growid", !.user = u, !.growid = g]
       IN  IF \E o \in DOMAIN user_growid : o # u /\ user_growid[o] = g
           THEN Goto(p, "done", [l EXCEPT !.result = "err_taken"])
           ELSE Goto(p, "sg_write", l)
    /\ UNCHANGED <<db, sched, last_use, now>>

\* INSERT OR REPLACE INTO user_growid: the user's row is replaced, and so is
\* a row of another user that holds the GrowID (growid is UNIQUE).
ReplaceGrowID(table, u, g) ==
    LET kept == {o \in DOMAIN table : o # u /\ table[o] # g}
    IN  (u :> g) @@ [o \in kept |-> table[o]]

\* INSERT OR IGNORE INTO users (growid)
InsertOrIgnoreUser(table, g) ==
    IF g \in DOMAIN table THEN table ELSE (g :> ZeroBal) @@ table

SGCommit(p) ==
    /\ pc[p] = "sg_write"
    /\ Turn(p)
    /\ LET l == loc[p]
       IN  /\ user_growid' = ReplaceGrowID(user_growid, l.user, l.growid)
           /\ users' = InsertOrIgnoreUser(users, l.growid)
           /\ Goto(p, "done", [l EXCEPT !.result = "ok"])
    /\ UNCHANGED <<products, product_stock, transaction_log,
                   balance_transactions, sched, last_use, now>>

SGFail(p) ==
    /\ pc[p] = "sg_write"
    /\ Turn(p)
    /\ Return(p, "err_db")
    /\ UNCHANGED <<db, sched, last_use, now>>

-----------------------------------------------------------------------------
(* Specifications *)

Next ==
    \/ \E p \in Procs, u \in UserIds, q \in Quantities : BuySubmit(p, u, "a", q)
    \/ \E p \in Procs : PPProduct(p)
    \/ \E p \in Procs : PPBalance(p)
    \/ \E p \in Procs : PPSelect(p)
    \/ \E p \in Procs, d \in Deltas : UpdateBalanceCall(p, "g1", d, "ADMIN")
    \/ \E p \in Procs : UBRead(p)
    \/ \E p \in Procs : UBCommit(p)
    \/ \E p \in Procs : UBFail(p)
    \/ \E p \in Procs : PPMarkCommit(p)
    \/ \E p \in Procs : PPMarkFail(p)
    \/ \E p \in Procs : PPSend(p)
    \/ \E p \in Procs, g \in GrowIds, a \in Amounts : AddBalanceCall(p, g, a)
    \/ \E p \in Procs : ABCommit(p)
    \/ \E p \in Procs : ABFail(p)
    \/ \E p \in Procs, a \in Amounts : RemoveBalanceCall(p, "g1", a)
    \/ \E p \in Procs : RBCommit(p)
    \/ \E p \in Procs : RBFail(p)
    \/ \E p \in Procs, c \in Codes, raw \in FileLines : AddStockCall(p, c, raw)
    \/ \E p \in Procs : ASCommit(p)
    \/ \E p \in Procs : ASFail(p)
    \/ \E p \in Procs, c \in Codes, price \in Prices : AddProductCall(p, c, price)
    \/ \E p \in Procs : APCommit(p)
    \/ \E p \in Procs : APFail(p)
    \/ \E p \in Procs, g \in GrowIds : SetGrowIDCall(p, "u2", g)
    \/ \E p \in Procs : SGCommit(p)
    \/ \E p \in Procs : SGFail(p)

\* The bot on its event loop.
Init == InitDB /\ sched = "await" /\ NoButtonUsed

Spec == Init /\ [][Next]_vars

\* Handlers interleaving at every database statement.
InitInterleaved == InitDB /\ sched = "interleaved" /\ NoButtonUsed

SpecInterleaved == InitInterleaved /\ [][Next]_vars

\* Purchases alone, interleaving at every database statement, in a shop
\* with one linked buyer who can pay for all the stock, no statement
\* failing, and up to the commit of each purchase.
InitPurchases ==
    /\ user_growid = ("u1" :> "g1")
    /\ users = ("g1" :> Bal(0, 0, 1))
    /\ \E n \in 1..MaxStock :
          /\ products = ("A" :> [price |-> 30, stock |-> n])
          /\ product_stock = InitStock(n)
    /\ transaction_log = <<>>
    /\ balance_transactions = <<>>
    /\ pc = [p \in Procs |-> "idle"]
    /\ loc = [p \in Procs |-> NoLoc]
    /\ sched = "interleaved" /\ NoButtonUsed

NextPurchases ==
    \/ \E p \in Procs, q \in 1..MaxQty : BuySubmit(p, "u1", "a", q)
    \/ \E p \in Procs : PPProduct(p)
    \/ \E p \in Procs : PPBalance(p)
    \/ \E p \in Procs : PPSelect(p)
    \/ \E p \in Procs : UBRead(p)
    \/ \E p \in Procs : UBCommit(p)
    \/ \E p \in Procs : PPMarkCommit(p)

SpecPurchases == InitPurchases /\ [][NextPurchases]_vars

\* constants.py: MAX_ITEMS_PER_TRANSACTION = 100
MAX_ITEMS_PER_TRANSACTION == 100

\* The quantities a three-character text of the modal can hold that matter
\* here, and the ones only a direct caller can pass.
ModalQuantities == {0, 1, MAX_ITEMS_PER_TRANSACTION + 1}
DirectQuantities == {-1, 0, 1}

\* A shop with more units of the product than the ceiling, and one linked
\* buyer who can pay for them.
InitQuantity ==
    /\ user_growid = ("u1" :> "g1")
    /\ users = ("g1" :> Bal(0, 0, 1))
    /\ products = ("A" :> [price |-> 30, stock |-> MAX_ITEMS_PER_TRANSACTION + 1])
    /\ product_stock = [i \in 1..(MAX_ITEMS_PER_TRANSACTION + 1) |-> NewStockRow("A", "c1")]
    /\ transaction_log = <<>>
    /\ balance_transactions = <<>>
    /\ pc = [p \in Procs |-> "idle"]
    /\ loc = [p \in Procs |-> NoLoc]
    /\ sched = "await" /\ NoButtonUsed

\* Purchases through the modal and by direct calls of process_purchase.
NextQuantity ==
    \/ \E p \in Procs, q \in ModalQuantities : BuySubmit(p, "u1", "a", q)
    \/ \E p \in Procs, q \in DirectQuantities : ProcessPurchaseCall(p, "u1", "A", q)
    \/ \E p \in Procs : PPProduct(p)
    \/ \E p \in Procs : PPBalance(p)
    \/ \E p \in Procs : PPSelect(p)
    \/ \E p \in Procs : UBRead(p)
    \/ \E p \in Procs : UBCommit(p)
    \/ \E p \in Procs : PPMarkCommit(p)
    \/ \E p \in Procs : PPSend(p)

SpecQuantity == InitQuantity /\ [][NextQuantity]_vars

-----------------------------------------------------------------------------
(* The debit of a purchase, over a range of balances and prices *)

\* most DLs and most BGLs the buyer starts with
MaxDl == 2
MaxBgl == 1

DebitWls == {0, 20, 120}
DebitPrices == {30, 170, 2030}

\* One linked buyer with any of the balances, a product at any of the
\* prices, and stock for the largest quantity.
InitDebit ==
    /\ user_growid = ("u1" :> "g1")
    /\ \E wl \in DebitWls, dl \in 0..MaxDl, bgl \in 0..MaxBgl :
          users = ("g1" :> Bal(wl, dl, bgl))
    /\ \E price \in DebitPrices :
          products = ("A" :> [price |-> price, stock |-> MaxStock])
    /\ product_stock = InitStock(MaxStock)
    /\ transaction_log = <<>>
    /\ balance_transactions = <<>>
    /\ pc = [p \in Procs |-> "idle"]
    /\ loc = [p \in Procs |-> NoLoc]
    /\ sched = "await" /\ NoButtonUsed

NextDebit ==
    \/ \E p \in Procs, q \in 1..MaxQty : BuySubmit(p, "u1", "a", q)
    \/ \E p \in Procs : PPProduct(p)
    \/ \E p \in Procs : PPBalance(p)
    \/ \E p \in Procs : PPSelect(p)
    \/ \E p \in Procs : UBRead(p)
    \/ \E p \in Procs : UBCommit(p)
    \/ \E p \in Procs : PPMarkCommit(p)
    \/ \E p \in Procs : PPSend(p)

SpecDebit == InitDebit /\ [][NextDebit]_vars

-----------------------------------------------------------------------------
(* Deleting a product, and the catalogue operations alone *)

\* DELETE FROM products WHERE code = ?
DeleteRow(prods, code) == [c \in DOMAIN prods \ {code} |-> prods[c]]

\* if stock > 0: return "Tidak dapat menghapus produk yang masih memiliki stok"
HasStock(stock) == stock > 0

\* ProductManager.delete_product.
DeleteProductCall(p, code) ==
    /\ Free(p)
    /\ Turn(p)
    /\ LET l == [NoLoc EXCEPT !.op = "delete_product", !.code = code]
       IN  IF code \notin DOMAIN products
           THEN /\ Goto(p, "done", [l EXCEPT !.result = "err_product"])
                /\ UNCHANGED products
           ELSE IF HasStock(products[code].stock)
           THEN /\ Goto(p, "done", [l EXCEPT !.result = "err_has_stock"])
                /\ UNCHANGED products
           ELSE /\ Goto(p, "done", [l EXCEPT !.result = "ok"])
                /\ products' = DeleteRow(products, code)
    /\ UNCHANGED <<user_growid, users, product_stock, transaction_log,
                   balance_transactions, sched, last_use, now>>

\* The admin command deleteproduct up to its request for confirmation.
AdminDeleteCall(p, code) ==
    /\ Free(p)
    /\ Turn(p)
    /\ LET l == [NoLoc EXCEPT !.op = "admin_delete", !.code = code]
       IN  IF code \notin DOMAIN products
           THEN Goto(p, "done", [l EXCEPT !.result = "err_product"])
           ELSE Goto(p, "ad_confirm", l)
    /\ UNCHANGED <<db, sched, last_use, now>>

\* The admin's reaction, or the timeout, and the DELETE and the commit.
AdminDeleteConfirm(p) ==
    /\ pc[p] = "ad_confirm"
    /\ Turn(p)
    /\ \E reaction \in {"yes", "no", "timeout"} :
         IF reaction = "yes"
         THEN /\ products' = DeleteRow(products, loc[p].code)
              /\ Return(p, "ok")
         ELSE /\ UNCHANGED products
              /\ Return(p, IF reaction = "no" THEN "cancelled" ELSE "timed_out")
    /\ UNCHANGED <<user_growid, users, product_stock, transaction_log,
                   balance_transactions, sched, last_use, now>>

\* A file of five lines, the first of them a content the pool holds from
\* the start, and a file without a line.
IngestFiles == {<<"c1", "v", "w", "x", "y">>, <<"">>}

\* A catalogue with product A, whose pool, unless it is empty, holds the
\* content "c1".
InitCatalogue ==
    /\ user_growid = ("u1" :> "g1")
    /\ users = ("g1" :> Bal(50, 0, 0))
    /\ \E n \in 0..MaxStock, price \in Prices :
          /\ products = ("A" :> [price |-> price, stock |-> n])
          /\ product_stock = InitStock(n)
    /\ transaction_log = <<>>
    /\ balance_transactions = <<>>
    /\ pc = [p \in Procs |-> "idle"]
    /\ loc = [p \in Procs |-> NoLoc]
    /\ sched = "await" /\ NoButtonUsed

NextCatalogue ==
    \/ \E p \in Procs, c \in Codes : DeleteProductCall(p, c)
    \/ \E p \in Procs, c \in Codes : AdminDeleteCall(p, c)
    \/ \E p \in Procs : AdminDeleteConfirm(p)
    \/ \E p \in Procs, c \in Codes, price \in Prices : AddProductCall(p, c, price)
    \/ \E p \in Procs : APCommit(p)
    \/ \E p \in Procs : APFail(p)
    \/ \E p \in Procs, c \in Codes, raw \in IngestFiles : AddStockCall(p, c, raw)
    \/ \E p \in Procs : ASCommit(p)
    \/ \E p \in Procs : ASFail(p)

SpecCatalogue == InitCatalogue /\ [][NextCatalogue]_vars

-----------------------------------------------------------------------------
(* AdminCog.edit_product, and purchases at the prices it sets *)

\* The texts an admin gives as the value of the field price.
PriceTexts == {"30", "-30", "x"}

\* The texts int(value) takes for a number; on any other it raises
\* ValueError.
IsInt(text) == text \in {"30", "-30"}

\* int(value), for a text that denotes a number.
IntOf(text) == IF text = "-30" THEN -30 ELSE 30

\* The admin command editproduct for the field price: the check that the
\* product exists, int(value), UPDATE products SET price = ? and the commit.
EditPriceCall(p, code, text) ==
    /\ Free(p)
    /\ Turn(p)
    /\ LET l == [NoLoc EXCEPT !.op = "edit_product", !.code = code]
       IN  IF code \notin DOMAIN products
           THEN /\ Goto(p, "done", [l EXCEPT !.result = "err_product"])
                /\ UNCHANGED products
           ELSE IF ~IsInt(text)
           THEN /\ Goto(p, "done", [l EXCEPT !.result = "err_number"])
                /\ UNCHANGED products
           ELSE /\ Goto(p, "done", [l EXCEPT !.price = IntOf(text), !.result = "ok"])
                /\ products' = [products EXCEPT ![code].price = IntOf(text)]
    /\ UNCHANGED <<user_growid, users, product_stock, transaction_log,
                   balance_transactions, sched, last_use, now>>

\* A stocked product, with or without a catalogue row, and one linked buyer.
InitPricing ==
    /\ user_growid = ("u1" :> "g1")
    /\ users = ("g1" :> Bal(50, 0, 0))
    /\ products \in {("A" :> [price |-> 30, stock |-> MaxStock]), EmptyTable}
    /\ product_stock = InitStock(MaxStock)
    /\ transaction_log = <<>>
    /\ balance_transactions = <<>>
    /\ pc = [p \in Procs |-> "idle"]
    /\ loc = [p \in Procs |-> NoLoc]
    /\ sched = "await" /\ NoButtonUsed

NextPricing ==
    \/ \E p \in Procs, c \in Codes, text \in PriceTexts : EditPriceCall(p, c, text)
    \/ \E p \in Procs, q \in 1..MaxQty : BuySubmit(p, "u1", "a", q)
    \/ \E p \in Procs : PPProduct(p)
    \/ \E p \in Procs : PPBalance(p)
    \/ \E p \in Procs : PPSelect(p)
    \/ \E p \in Procs : UBRead(p)
    \/ \E p \in Procs : UBCommit(p)
    \/ \E p \in Procs : PPMarkCommit(p)
    \/ \E p \in Procs : PPSend(p)

SpecPricing == InitPricing /\ [][NextPricing]_vars

-----------------------------------------------------------------------------
(* StockView.check_cooldown *)

\* The last time on the clock.
MaxTime == 8

\* self._last_use.get(interaction.user.id, 0)
LastUseOf(table, u) == IF u \in DOMAIN table THEN table[u] ELSE 0

\* A window that is closed at both ends.
OnCooldownInclusive(current_time, last) == current_time - last <= COOLDOWN_SECONDS

\* if current_time - last_use < COOLDOWN_SECONDS
OnCooldown(current_time, last) == current_time - last < COOLDOWN_SECONDS

\* self._last_use[interaction.user.id] = current_time
Record(table, u, current_time) ==
    [k \in DOMAIN table \cup {u} |-> IF k = u THEN current_time ELSE table[k]]

\* check_cooldown, called by a button callback of user u.  A slot holds the
\* latest call made through it.
CheckCooldown(p, u) ==
    /\ Turn(p)
    /\ \/ Free(p)
       \/ pc[p] = "done" /\ loc[p].op = "check_cooldown"
    /\ LET l == [NoLoc EXCEPT !.op = "check_cooldown", !.user = u,
                              !.current_time = now,
                              !.last_use = LastUseOf(last_use, u)]
       IN  IF OnCooldown(l.current_time, l.last_use)
           THEN /\ Goto(p, "done", [l EXCEPT !.result = "False"])
                /\ UNCHANGED last_use
           ELSE /\ Goto(p, "done", [l EXCEPT !.result = "True"])
                /\ last_use' = Record(last_use, u, l.current_time)
    /\ UNCHANGED <<db, sched, now>>

\* A second passes.
Tick ==
    /\ now < MaxTime
    /\ now' = now + 1
    /\ UNCHANGED <<db, pc, loc, sched, last_use>>

NextCooldown ==
    \/ \E p \in Procs, u \in UserIds : CheckCooldown(p, u)
    \/ Tick

\* The buttons alone: no table of the shop plays a part.
InitCooldown ==
    /\ user_growid = ("u1" :> "g1")
    /\ users = ("g1" :> ZeroBal)
    /\ products = EmptyTable
    /\ product_stock = <<>>
    /\ transaction_log = <<>>
    /\ balance_transactions = <<>>
    /\ pc = [p \in Procs |-> "idle"]
    /\ loc = [p \in Procs |-> NoLoc]
    /\ sched = "await" /\ NoButtonUsed

SpecCooldown == InitCooldown /\ [][NextCooldown]_vars

-----------------------------------------------------------------------------
(* AdminCog.reset_user *)

\* BalanceManager.get_user_balance returns a tuple, or None.
OldBalanceIsBalance == FALSE

\* reset_user after the confirmation: the UPDATE of users is executed, and
\* old_balance.total_wls, an argument of the INSERT into transaction_log,
\* raises AttributeError as old_balance is no Balance; the handler reports
\* the error and conn.close() discards the UPDATE, which was not committed.
ResetUserCall(p, g) ==
    /\ Free(p)
    /\ Turn(p)
    /\ LET l == [NoLoc EXCEPT !.op = "reset_user", !.growid = g,
                              !.old = Stored(g)]
           new == UBWrite(users, g, ZeroBal)
       IN  IF OldBalanceIsBalance
           THEN /\ users' = new
                /\ transaction_log' =
                     Append(transaction_log,
                            LogEntry(g, Minus(ZeroBal, l.old), "ADMIN_RESET", l.old, ZeroBal))
                /\ Goto(p, "done", [l EXCEPT !.result = "ok", !.wrote = TRUE,
                                             !.applied = Applied(users, new, g)])
           ELSE /\ Goto(p, "done", [l EXCEPT !.result = "raised"])
                /\ UNCHANGED <<users, transaction_log>>
    /\ UNCHANGED <<user_growid, products, product_stock, balance_transactions,
                   sched, last_use, now>>

-----------------------------------------------------------------------------
(* BalanceManager.transfer_balance *)

TransferAmounts == {Bal(30, 0, 0), Bal(0, 0, 1)}

\* transfer_balance up to the check remove_balance makes of the sender's new
\* balance.
TransferCall(p, from_growid, to_growid, a) ==
    /\ Free(p)
    /\ Turn(p)
    /\ LET l == [NoLoc EXCEPT !.op = "transfer", !.growid = from_growid,
                              !.to = to_growid, !.delta = a, !.before = users]
       IN  IF from_growid \notin DOMAIN users
           THEN Goto(p, "done", [l EXCEPT !.result = "False"])
           ELSE IF WouldGoNegative(Minus(users[from_growid], a))
           THEN Goto(p, "done", [l EXCEPT !.old = users[from_growid],
                                          !.result = "False"])
           ELSE Goto(p, "tb_remove", [l EXCEPT !.old = users[from_growid],
                                               !.new = Minus(users[from_growid], a)])
    /\ UNCHANGED <<db, sched, last_use, now>>

\* remove_balance writes the sender's balance and commits; add_balance then
\* reads the receiver's row.
TBRemoveCommit(p) ==
    /\ pc[p] = "tb_remove"
    /\ Turn(p)
    /\ LET l == loc[p]
           after == UBWrite(users, l.growid, l.new)
       IN  /\ users' = after
           /\ balance_transactions' =
                Append(balance_transactions, TxEntry(l.growid, "REMOVE", l.delta))
           /\ Goto(p, "tb_credit",
                   [l EXCEPT !.wrote = TRUE,
                             !.found = (l.to \in DOMAIN after),
                             !.balance = IF l.to \in DOMAIN after
                                         THEN after[l.to] ELSE ZeroBal])
    /\ UNCHANGED <<user_growid, products, product_stock, transaction_log,
                   sched, last_use, now>>

\* A statement of remove_balance raises: it returns False, and so does
\* transfer_balance.
TBRemoveFail(p) ==
    /\ pc[p] = "tb_remove"
    /\ Turn(p)
    /\ Return(p, "False")
    /\ UNCHANGED <<db, sched, last_use, now>>

\* add_balance writes the receiver's balance and commits: return True.
TBCreditCommit(p) ==
    /\ pc[p] = "tb_credit"
    /\ Turn(p)
    /\ LET l == loc[p]
       IN  /\ l.found \/ l.to \notin DOMAIN users
           /\ users' = ABWrite(users, l.to, l.found, l.balance, l.delta)
           /\ balance_transactions' =
                Append(balance_transactions, TxEntry(l.to, "ADD", l.delta))
           /\ Goto(p, "done", [l EXCEPT !.result = "True"])
    /\ UNCHANGED <<user_growid, products, product_stock, transaction_log,
                   sched, last_use, now>>

\* A statement of add_balance raises: it returns False, and transfer_balance
\* calls add_balance for the sender, which reads the sender's row.
TBCreditFail(p) ==
    /\ pc[p] = "tb_credit"
    /\ Turn(p)
    /\ LET l == loc[p]
       IN  Goto(p, "tb_refund",
                [l EXCEPT !.found = (l.growid \in DOMAIN users),
                          !.balance = Stored(l.growid)])
    /\ UNCHANGED <<db, sched, last_use, now>>

\* The add_balance for the sender commits; its result is not looked at, and
\* transfer_balance returns False.
TBRefundCommit(p) ==
    /\ pc[p] = "tb_refund"
    /\ Turn(p)
    /\ LET l == loc[p]
       IN  /\ l.found \/ l.growid \notin DOMAIN users
           /\ users' = ABWrite(users, l.growid, l.found, l.balance, l.delta)
           /\ balance_transactions' =
                Append(balance_transactions, TxEntry(l.growid, "ADD", l.delta))
           /\ Goto(p, "done", [l EXCEPT !.result = "False"])
    /\ UNCHANGED <<user_growid, products, product_stock, transaction_log,
                   sched, last_use, now>>

\* The add_balance for the sender raises and returns False as well.
TBRefundFail(p) ==
    /\ pc[p] = "tb_refund"
    /\ Turn(p)
    /\ Return(p, "False")
    /\ UNCHANGED <<db, sched, last_use, now>>

\* The sender's account with a balance, and the receiver's with or without
\* a users row.
InitTransfer ==
    /\ user_growid = ("u1" :> "g1")
    /\ \E b \in InitBalances :
          users \in {("g1" :> b), ("g1" :> b) @@ ("g2" :> Bal(50, 0, 0))}
    /\ products = EmptyTable
    /\ product_stock = <<>>
    /\ transaction_log = <<>>
    /\ balance_transactions = <<>>
    /\ pc = [p \in Procs |-> "idle"]
    /\ loc = [p \in Procs |-> NoLoc]
    /\ sched = "await" /\ NoButtonUsed

NextTransfer ==
    \/ \E p \in Procs, f \in GrowIds, t \in GrowIds, a \in TransferAmounts :
          TransferCall(p, f, t, a)
    \/ \E p \in Procs : TBRemoveCommit(p)
    \/ \E p \in Procs : TBRemoveFail(p)
    \/ \E p \in Procs : TBCreditCommit(p)
    \/ \E p \in Procs : TBCreditFail(p)
    \/ \E p \in Procs : TBRefundCommit(p)
    \/ \E p \in Procs : TBRefundFail(p)

SpecTransfer == InitTransfer /\ [][NextTransfer]_vars

\* The users table after the amount left the sender's row and reached the
\* receiver's.
Transferred(table, from_growid, to_growid, a) ==
    LET removed == [table EXCEPT ![from_growid] = Minus(table[from_growid], a)]
    IN  IF to_growid \in DOMAIN removed
        THEN [removed EXCEPT ![to_growid] = Plus(removed[to_growid], a)]
        ELSE (to_growid :> a) @@ removed

-----------------------------------------------------------------------------
(* The confirmation of deleteproduct and resetuser *)

ConfirmCodes == {"A", "B"}

\* The handlers that wait in bot.wait_for('reaction_add', check=check).
Waiting == {p \in Procs : pc[p] = "ad_confirm"}

\* check(reaction, user): user == ctx.author and str(reaction.emoji) in
\* ['✅', '❌'].  The commands of the model come from one admin, and message
\* is the confirmation message the reaction was added to (0: a message that
\* is no confirmation message).
CheckReaction(p, by_author, emoji, message) ==
    by_author /\ emoji \in {"yes", "no"}

\* The admin command resetuser up to its request for confirmation.
AdminResetCall(p, g) ==
    /\ Free(p)
    /\ Turn(p)
    /\ Goto(p, "ad_confirm", [NoLoc EXCEPT !.op = "admin_reset", !.growid = g])
    /\ UNCHANGED <<db, sched, last_use, now>>

\* A reaction_add event: the client hands it to every waiting handler whose
\* check accepts it, and each of them is woken with this reaction.
React(by_author, emoji, message) ==
    /\ \A q \in Procs : pc[q] \in Suspended
    /\ message = 0 \/ message \in Waiting
    /\ \E p \in Waiting : CheckReaction(p, by_author, emoji, message)
    /\ pc' = [p \in Procs |->
                IF p \in Waiting /\ CheckReaction(p, by_author, emoji, message)
                THEN "ad_woken" ELSE pc[p]]
    /\ loc' = [p \in Procs |->
                IF p \in Waiting /\ CheckReaction(p, by_author, emoji, message)
                THEN [loc[p] EXCEPT !.reaction = emoji, !.message = message]
                ELSE loc[p]]
    /\ UNCHANGED <<db, sched, last_use, now>>

\* wait_for's timeout of 30 seconds: the handler reports it and returns.
ConfirmTimeout(p) ==
    /\ pc[p] = "ad_confirm"
    /\ Turn(p)
    /\ Goto(p, "done", [loc[p] EXCEPT !.reaction = "timeout", !.result = "timed_out"])
    /\ UNCHANGED <<db, sched, last_use, now>>

\* The handler resumes with the reaction: a cross cancels; otherwise
\* deleteproduct runs its DELETE and commits, and resetuser runs into
\* old_balance.total_wls, as in ResetUserCall.
ConfirmResume(p) ==
    /\ pc[p] = "ad_woken"
    /\ Turn(p)
    /\ LET l == loc[p]
       IN  IF l.reaction = "no"
           THEN /\ Return(p, "cancelled")
                /\ UNCHANGED <<products, users, transaction_log>>
           ELSE IF l.op = "admin_delete"
           THEN /\ products' = DeleteRow(products, l.code)
                /\ Return(p, "ok")
                /\ UNCHANGED <<users, transaction_log>>
           ELSE IF OldBalanceIsBalance
           THEN /\ users' = UBWrite(users, l.growid, ZeroBal)
                /\ transaction_log' =
                     Append(transaction_log,
                            LogEntry(l.growid, Minus(ZeroBal, Stored(l.growid)),
                                     "ADMIN_RESET", Stored(l.growid), ZeroBal))
                /\ Return(p, "ok")
                /\ UNCHANGED products
           ELSE /\ Return(p, "raised")
                /\ UNCHANGED <<products, users, transaction_log>>
    /\ UNCHANGED <<user_growid, product_stock, balance_transactions,
                   sched, last_use, now>>

\* Two products without stock and one account.
InitConfirm ==
    /\ user_growid = ("u1" :> "g1")
    /\ \E b \in InitBalances : users = ("g1" :> b)
    /\ \E price \in Prices :
          products = [c \in ConfirmCodes |-> [price |-> price, stock |-> 0]]
    /\ product_stock = <<>>
    /\ transaction_log = <<>>
    /\ balance_transactions = <<>>
    /\ pc = [p \in Procs |-> "idle"]
    /\ loc = [p \in Procs |-> NoLoc]
    /\ sched = "await" /\ NoButtonUsed

NextConfirm ==
    \/ \E p \in Procs, c \in ConfirmCodes : AdminDeleteCall(p, c)
    \/ \E p \in Procs, g \in GrowIds : AdminResetCall(p, g)
    \/ \E by_author \in BOOLEAN, emoji \in {"yes", "no", "other"},
          message \in 0..NumProcs : React(by_author, emoji, message)
    \/ \E p \in Procs : ConfirmTimeout(p)
    \/ \E p \in Procs : ConfirmResume(p)

SpecConfirm == InitConfirm /\ [][NextConfirm]_vars

-----------------------------------------------------------------------------
(* The balance-changing operations alone *)

\* One account with a users row (g1) and one without (g2).
InitLedger ==
    /\ user_growid = ("u1" :> "g1")
    /\ \E b \in InitBalances : users = ("g1" :> b)
    /\ products = EmptyTable
    /\ product_stock = <<>>
    /\ transaction_log = <<>>
    /\ balance_transactions = <<>>
    /\ pc = [p \in Procs |-> "idle"]
    /\ loc = [p \in Procs |-> NoLoc]
    /\ sched = "await" /\ NoButtonUsed

NextLedger ==
    \/ \E p \in Procs, g \in GrowIds, d \in Deltas : UpdateBalanceCall(p, g, d, "ADMIN")
    \/ \E p \in Procs : UBRead(p)
    \/ \E p \in Procs : UBCommit(p)
    \/ \E p \in Procs : UBFail(p)
    \/ \E p \in Procs, g \in GrowIds, a \in Amounts : AddBalanceCall(p, g, a)
    \/ \E p \in Procs : ABCommit(p)
    \/ \E p \in Procs : ABFail(p)
    \/ \E p \in Procs, g \in GrowIds, a \in Amounts : RemoveBalanceCall(p, g, a)
    \/ \E p \in Procs : RBCommit(p)
    \/ \E p \in Procs : RBFail(p)
    \/ \E p \in Procs, g \in GrowIds : ResetUserCall(p, g)

SpecLedger == InitLedger /\ [][NextLedger]_vars


-----------------------------------------------------------------------------
(* Properties *)


Purchases == {p \in Procs : loc[p].op = "purchase"}

\* A purchase that returned "Purchase Successful!".
Succeeded(p) == loc[p].op = "purchase" /\ loc[p].result \in {"ok", "ok_no_dm"}

\* C1: every account's total wl + 100*dl + 10000*bgl is never negative, after
\* any purchases and balance adjustments.
C1_TotalNeverNegative ==
    \A g \in DOMAIN users : Total(users[g]) >= 0

\* C2: a process_purchase that has ended either debited price x quantity,
\* turned exactly quantity rows from unused to used and dropped the counter
\* by quantity, or changed none of the three.
C2_AllOrNothing ==
    \A p \in Purchases :
        pc[p] = "done" =>
            LET l == loc[p]
            IN  \/ /\ l.wrote
                   /\ Total(l.applied) = -(l.price * l.quantity)
                   /\ l.flipped = l.quantity
                   /\ l.dropped = l.quantity
                \/ /\ Total(l.applied) = 0
                   /\ l.flipped = 0
                   /\ l.dropped = 0

\* C3: no product_stock row is marked used by the purchases of two buyers.
C3_NoRowMarkedTwice ==
    \A p, q \in Purchases :
        loc[p].user # loc[q].user => loc[p].marked \cap loc[q].marked = {}

\* C4: when every handler is a purchase of quantity 1 by a buyer of its own
\* with the funds, the product has one unit less than there are handlers and
\* no statement fails, all but one succeed and one is rejected for the stock.
C4_OneRejected ==
    (/\ \A p, q \in Procs : p # q => loc[p].user # loc[q].user
     /\ \A p \in Procs :
            /\ pc[p] = "done"
            /\ loc[p].op = "purchase"
            /\ loc[p].quantity = 1
            /\ loc[p].result \in {"ok", "ok_no_dm", "err_stock", "err_items"}
     /\ Len(product_stock) = NumProcs - 1)
    => /\ Cardinality({p \in Procs : Succeeded(p)}) = NumProcs - 1
       /\ Cardinality({p \in Procs : ~Succeeded(p)}) = 1

\* C5: a committed balance update changed the stored balance by exactly its
\* delta, so that nothing another update wrote since the read is lost.
C5_NoLostUpdate ==
    \A p \in Procs :
        loc[p].wrote =>
            loc[p].applied = IF loc[p].op = "remove_balance"
                             THEN Minus(ZeroBal, loc[p].delta)
                             ELSE loc[p].delta


\* C6: a stock row that is used is never changed again: it is not reset to
\* unused, and used_by is not written a second time.
C6_UsedRowFrozen ==
    [][\A i \in DOMAIN product_stock :
          product_stock[i].used = 1 =>
              /\ i \in DOMAIN product_stock'
              /\ product_stock'[i] = product_stock[i]]_vars

\* Two purchases have each turned rows of the product to used.
C6_Witness ==
    \E p, q \in Purchases :
        /\ p # q
        /\ Succeeded(p) /\ loc[p].flipped > 0
        /\ Succeeded(q) /\ loc[q].flipped > 0
        /\ \A i \in loc[p].marked \cup loc[q].marked : product_stock[i].writes = 1

C8_DebitIsPrice ==
    \A p \in Procs :
        Succeeded(p) =>
            /\ Total(loc[p].applied) = -(loc[p].price * loc[p].quantity)
            /\ (loc[p].balance = Bal(50, 0, 0) /\ loc[p].price * loc[p].quantity = 30)
                  => loc[p].written = Bal(20, 0, 0)

C8_Witness ==
    \E p \in Procs :
        /\ Succeeded(p)
        /\ loc[p].balance = Bal(50, 0, 0)
        /\ loc[p].price = 30 /\ loc[p].quantity = 1
        /\ users[loc[p].growid] = Bal(20, 0, 0)

\* C9 as stated: from (0, 0, 1) a purchase of 50 leaves (9950, 0, 0).
C9_AllBrokenDown ==
    \A p \in Procs :
        (Succeeded(p) /\ loc[p].balance = Bal(0, 0, 1)
                      /\ loc[p].price * loc[p].quantity = 50)
            => loc[p].written = Bal(9950, 0, 0)

\* C9, amended: from (0, 0, 1) a purchase of 50 leaves (50, 99, 0): the BGL
\* becomes 100 DL, and only the one DL that is needed becomes WL.
C9_OneDlBroken ==
    \A p \in Procs :
        (Succeeded(p) /\ loc[p].balance = Bal(0, 0, 1)
                      /\ loc[p].price * loc[p].quantity = 50)
            => /\ loc[p].written = Bal(50, 99, 0)
               /\ Total(loc[p].written) = 9950

C9_Witness ==
    \E p \in Procs :
        /\ Succeeded(p)
        /\ loc[p].balance = Bal(0, 0, 1)
        /\ loc[p].price = 50 /\ loc[p].quantity = 1
        /\ users[loc[p].growid] = loc[p].written

\* C10: a purchase whose buyer's total is below price x quantity is rejected,
\* and no step of it up to the rejection changes a table.
C10_RejectedUntouched ==
    [][\A p \in Procs :
          /\ (/\ pc[p] = "pp_balance"
              /\ pc'[p] # "pp_balance"
              /\ Total(Stored(loc[p].growid)) < loc[p].price * loc[p].quantity)
                => /\ pc'[p] = "done"
                   /\ loc'[p].result = "err_balance"
                   /\ db' = db
          /\ (/\ pc[p] \in {"idle", "pp_product"}
              /\ pc'[p] # pc[p]
              /\ loc'[p].op = "purchase")
                => db' = db]_vars

C10_Witness ==
    \E p \in Procs :
        /\ pc[p] = "done"
        /\ loc[p].op = "purchase"
        /\ loc[p].result = "err_balance"
        /\ Total(loc[p].balance) < loc[p].price * loc[p].quantity


\* C11: a purchase that finds the product's counter, or the number of unused
\* rows it selects, below the quantity is rejected by that step; the step
\* changes no table, and the purchase has written no balance and marked no
\* row.
C11_ShortStockUntouched ==
    [][\A p \in Procs :
          /\ (/\ pc[p] = "pp_select"
              /\ pc'[p] # "pp_select"
              /\ Cardinality(UnusedIds(product_stock, loc[p].code)) < loc[p].quantity)
                => /\ pc'[p] = "done"
                   /\ loc'[p].result = "err_items"
                   /\ ~loc'[p].wrote /\ loc'[p].marked = {}
                   /\ db' = db
          /\ (/\ pc[p] = "pp_product"
              /\ pc'[p] # "pp_product"
              /\ loc[p].code \in DOMAIN products
              /\ products[loc[p].code].stock < loc[p].quantity)
                => /\ pc'[p] = "done"
                   /\ loc'[p].result = "err_stock"
                   /\ ~loc'[p].wrote /\ loc'[p].marked = {}
                   /\ db' = db]_vars

\* A purchase passed the stock check, another purchase took the units, and
\* the first was rejected by its selection.
C11_Witness ==
    \E p, q \in Purchases :
        /\ pc[p] = "done" /\ loc[p].result = "err_items"
        /\ ~loc[p].wrote /\ loc[p].marked = {}
        /\ loc[q].flipped > 0

\* C12: process_purchase called by a user without a user_growid row returns
\* the rejection at once and changes no table.
C12_UnlinkedUntouched ==
    [][\A p \in Procs :
          (/\ pc[p] = "idle"
           /\ loc'[p].op = "purchase"
           /\ loc'[p].quantity > 0
           /\ loc'[p].user \notin DOMAIN user_growid)
             => /\ pc'[p] = "done"
                /\ loc'[p].result = "err_growid"
                /\ db' = db]_vars

C12_Witness ==
    \E p \in Procs :
        /\ pc[p] = "done"
        /\ loc[p].op = "purchase"
        /\ loc[p].result = "err_growid"
        /\ loc[p].user \notin DOMAIN user_growid


\* The purchases whose marking of the stock rows was committed.
Committed == {p \in Purchases : loc[p].marked # {}}

\* C13: a purchase that has committed and returned, returned a success,
\* whatever became of the delivery, and its rows are still used.
C13_DeliveryFailureIsSuccess ==
    \A p \in Committed :
        pc[p] = "done" =>
            /\ Succeeded(p)
            /\ loc[p].wrote
            /\ \A i \in loc[p].marked : product_stock[i].used = 1

\* C14: the content of every unit of a purchase that has committed and
\* returned was sent to the buyer or is carried by the returned result.
C14_EveryUnitDisclosed ==
    \A p \in Committed :
        pc[p] = "done" =>
            \A k \in DOMAIN loc[p].items :
                \/ \E j \in DOMAIN loc[p].sent : loc[p].sent[j] = loc[p].items[k].content
                \/ \E j \in DOMAIN loc[p].shown : loc[p].shown[j] = loc[p].items[k].content


\* C15: a purchase whose quantity is zero, negative or above
\* MAX_ITEMS_PER_TRANSACTION changes no balance, no stock row and no counter.
C15_QuantityInRange ==
    \A p \in Purchases :
        (loc[p].quantity <= 0 \/ loc[p].quantity > MAX_ITEMS_PER_TRANSACTION)
            => /\ loc[p].applied = ZeroBal
               /\ loc[p].flipped = 0
               /\ loc[p].dropped = 0


\* C16: an update_balance or remove_balance that has returned, and whose
\* delta makes the total of the balance it read negative, returned an error
\* and wrote nothing.
C16_NegativeRejected ==
    \A p \in Procs :
        (/\ pc[p] = "done"
         /\ \/ loc[p].op = "update_balance"
               /\ loc[p].result # "raised"
               /\ Total(Plus(loc[p].old, loc[p].delta)) < 0
            \/ loc[p].op = "remove_balance"
               /\ Total(Minus(loc[p].old, loc[p].delta)) < 0)
            => /\ ~loc[p].wrote
               /\ loc[p].applied = ZeroBal
               /\ loc[p].result \notin {"ok", "True"}


\* The audit entries of account g, in either audit table.
AuditCount(g) ==
    Cardinality({i \in DOMAIN transaction_log : transaction_log[i].growid = g})
    + Cardinality({i \in DOMAIN balance_transactions :
                      balance_transactions[i].growid = g})

\* The users row of account g, if there is one.
StoredRow(g) == IF g \in DOMAIN users THEN <<users[g]>> ELSE <<>>

\* C17: a step that changes the stored balance of an account adds exactly
\* one audit entry for it, and a step that does not change it adds none.
C17_WriteAndAuditTogether ==
    [][\A g \in GrowIds :
          IF StoredRow(g)' # StoredRow(g)
          THEN AuditCount(g)' = AuditCount(g) + 1
          ELSE AuditCount(g)' = AuditCount(g)]_vars


\* C18: a step removes a product only when its stock counter is zero, and a
\* deletion that is refused for the stock leaves the products as they are.
C18_DeleteOnlyWithoutStock ==
    [][/\ \A c \in DOMAIN products :
             c \notin DOMAIN products' => products[c].stock = 0
       /\ \A p \in Procs :
             (pc[p] # "done" /\ pc'[p] = "done" /\ loc'[p].result = "err_has_stock")
                => products' = products]_vars

\* C19: an ingestion of five lines, one of them a content of the product's
\* pool already, reports four added, and inserts as many rows as it raises
\* the counter by.
C19_DuplicateNotAdded ==
    \A p \in Procs :
        (/\ loc[p].op = "add_stock"
         /\ loc[p].result = "ok"
         /\ Len(loc[p].lines) = 5
         /\ loc[p].fresh = 4)
            => /\ loc[p].added_count = 4
               /\ loc[p].raised = loc[p].inserted


\* A step is a call of check_cooldown through slot p.
Called(p) ==
    /\ loc'[p].op = "check_cooldown"
    /\ pc'[p] = "done"
    /\ (loc'[p] # loc[p] \/ pc'[p] # pc[p])

\* C20 as stated: a call within COOLDOWN_SECONDS of the caller's recorded
\* time is suppressed and records the current time; a call outside the window
\* is accepted and records the current time.
C20_SuppressedRefreshes ==
    [][\A p \in Procs :
          Called(p) =>
              LET u == loc'[p].user
              IN  /\ loc'[p].result =
                        IF now - LastUseOf(last_use, u) < COOLDOWN_SECONDS
                        THEN "False" ELSE "True"
                  /\ LastUseOf(last_use', u) = now]_vars

\* C20, amended: a call within COOLDOWN_SECONDS of the caller's recorded time
\* is suppressed and leaves the recorded time as it was; a call outside the
\* window is accepted and records the current time; no call changes the time
\* recorded for another user.
C20_SuppressedKeepsTime ==
    [][\A p \in Procs :
          Called(p) =>
              LET u == loc'[p].user
              IN  /\ IF now - LastUseOf(last_use, u) < COOLDOWN_SECONDS
                     THEN /\ loc'[p].result = "False"
                          /\ LastUseOf(last_use', u) = LastUseOf(last_use, u)
                     ELSE /\ loc'[p].result = "True"
                          /\ LastUseOf(last_use', u) = now
                  /\ \A o \in UserIds \ {u} :
                        LastUseOf(last_use', o) = LastUseOf(last_use, o)]_vars

\* A call was suppressed later than the time recorded for its caller, and
\* another was accepted when the window of an earlier use had passed.
C20_Witness ==
    \E p, q \in Procs :
        /\ loc[p].op = "check_cooldown" /\ loc[p].result = "False"
        /\ loc[p].current_time > loc[p].last_use
        /\ LastUseOf(last_use, loc[p].user) = loc[p].last_use
        /\ loc[q].op = "check_cooldown" /\ loc[q].result = "True"
        /\ loc[q].last_use >= StartTime
        /\ loc[q].current_time - loc[q].last_use >= COOLDOWN_SECONDS

-----------------------------------------------------------------------------
(* Resetting an account *)

\* C21: a reset_user that the admin confirmed leaves the account's stored
\* balance at (0, 0, 0) and appends exactly one ADMIN_RESET entry to
\* transaction_log, which records the balance before the reset (old_balance)
\* and minus its total (amount).
C21_ResetZeroesAndLogs ==
    [][\A p \in Procs :
          (pc[p] = "idle" /\ pc'[p] = "done" /\ loc'[p].op = "reset_user"
             /\ loc'[p].growid \in DOMAIN users)
          => LET g == loc'[p].growid
                 prior == users[g]
             IN  /\ users' = [users EXCEPT ![g] = ZeroBal]
                 /\ transaction_log' =
                      Append(transaction_log,
                             [growid |-> g, amount |-> 0 - Total(prior),
                              type |-> "ADMIN_RESET",
                              old_balance |-> format_balance(prior.wl, prior.dl, prior.bgl),
                              new_balance |-> format_balance(0, 0, 0)])]_vars

-----------------------------------------------------------------------------
(* The break-down of a balance *)

\* The balance a purchase read is made of whole, non-negative amounts.
NonNegative(b) == b.wl >= 0 /\ b.dl >= 0 /\ b.bgl >= 0

\* The purchases that passed the balance check.
PastBalanceCheck ==
    {p \in Purchases : loc[p].result \notin {"err_quantity", "err_growid",
                                             "err_product", "err_stock",
                                             "err_balance"}
                       /\ pc[p] \notin {"pp_product", "pp_balance"}}

\* C22: the "Balance conversion error" branch is never taken: whenever a
\* purchase read a balance of non-negative wl, dl and bgl whose total covers
\* a non-negative required amount, the two break-down loops end with at
\* least the required amount in WLs.
C22_ConversionNeverFails ==
    \A p \in PastBalanceCheck :
        (NonNegative(loc[p].balance) /\ required_wls(loc[p]) >= 0
           /\ Total(loc[p].balance) >= required_wls(loc[p]))
        => /\ loc[p].result # "err_conversion"
           /\ Converted(required_wls(loc[p]), loc[p].balance).wl
                >= required_wls(loc[p])

\* A purchase passed the check on a balance of which a BGL and DLs had to
\* be broken down.
C22_Witness ==
    \E p \in PastBalanceCheck :
        /\ pc[p] = "pp_select"
        /\ loc[p].balance.wl + 100 * loc[p].balance.dl < required_wls(loc[p])
        /\ loc[p].balance.bgl > 0
        /\ loc[p].new.wl >= 0

\* The least number of a set of numbers that is not empty.
Least(S) == CHOOSE x \in S : \A y \in S : x <= y

\* C24: the break-down is greedy and minimal, and a function of the balance
\* and the amount alone: the number of BGLs broken is the least k with
\* wl + 100*(dl + 100*k) >= amount, the number of DLs then broken is the
\* least m with wl + 100*m >= amount, and the balance that results is
\* (wl + 100*m - amount, dl + 100*k - m, bgl - k).
C24_GreedyMinimal ==
    \A p \in PastBalanceCheck :
        loc[p].result # "err_conversion" =>
        LET b == loc[p].balance
            amount == required_wls(loc[p])
            k == Least({i \in 0..b.bgl : b.wl + 100 * (b.dl + 100 * i) >= amount})
            m == Least({i \in 0..(b.dl + 100 * k) : b.wl + 100 * i >= amount})
        IN  loc[p].new = Bal(b.wl + 100 * m - amount, b.dl + 100 * k - m, b.bgl - k)

\* A purchase broke down a BGL and more than one DL, and kept DLs whole.
C24_Witness ==
    \E p \in PastBalanceCheck :
        /\ pc[p] = "done" /\ Succeeded(p)
        /\ loc[p].new.bgl = loc[p].balance.bgl - 1
        /\ loc[p].new.dl < loc[p].balance.dl + 99
        /\ loc[p].new.dl > 0

-----------------------------------------------------------------------------
(* The order of the writes of a purchase *)

\* C23: in every purchase the selected stock rows are marked used before the
\* buyer's balance is written, so that after the debit was committed no
\* write of the stock can fail any more.
C23_ReservedBeforeDebit ==
    [][\A p \in Procs :
          /\ (loc'[p].op = "purchase" /\ ~loc[p].wrote /\ loc'[p].wrote)
             => /\ loc[p].items # <<>>
                /\ loc[p].marked = ItemIds(loc[p].items)
                /\ \A i \in loc[p].marked : product_stock[i].used = 1
          /\ (loc[p].op = "purchase" /\ loc[p].wrote /\ pc'[p] = "done")
             => loc'[p].result # "err_purchase" \/ pc[p] = "pp_send"]_vars

-----------------------------------------------------------------------------
(* The ledger entry of a purchase *)

\* The entries of type PURCHASE that transaction_log holds for an account.
PurchaseEntries(g) ==
    {i \in DOMAIN transaction_log :
        transaction_log[i].type = "PURCHASE" /\ transaction_log[i].growid = g}

\* The purchases of an account whose debit was committed.
Debited(g) == {q \in Purchases : loc[q].growid = g /\ loc[q].wrote}

\* C25 as stated: each successful purchase recorded exactly one entry of
\* type PURCHASE for the buyer's account, and its amount is the price paid
\* (30 for one unit priced at 30).
C25_EntryOfPricePaid ==
    \A p \in Procs :
        Succeeded(p) =>
            /\ Cardinality(PurchaseEntries(loc[p].growid))
                 = Cardinality(Debited(loc[p].growid))
            /\ \E i \in PurchaseEntries(loc[p].growid) :
                 /\ transaction_log[i].amount = loc[p].price * loc[p].quantity
                 /\ transaction_log[i].new_balance
                      = format_balance(loc[p].written.wl, loc[p].written.dl,
                                       loc[p].written.bgl)

\* C25: each successful purchase recorded exactly one entry of type PURCHASE
\* for the buyer's account, and its amount is the signed change of the
\* balance, minus the price paid (-30 for one unit priced at 30).
C25_EntryOfSignedChange ==
    \A p \in Procs :
        Succeeded(p) =>
            /\ Cardinality(PurchaseEntries(loc[p].growid))
                 = Cardinality(Debited(loc[p].growid))
            /\ \E i \in PurchaseEntries(loc[p].growid) :
                 /\ transaction_log[i].amount = 0 - (loc[p].price * loc[p].quantity)
                 /\ transaction_log[i].new_balance
                      = format_balance(loc[p].written.wl, loc[p].written.dl,
                                       loc[p].written.bgl)

\* One unit priced at 30 was bought from (50, 0, 0), and the entry is there.
C25_Witness ==
    \E p \in Procs :
        /\ Succeeded(p)
        /\ loc[p].balance = Bal(50, 0, 0) /\ loc[p].price = 30 /\ loc[p].quantity = 1
        /\ \E i \in PurchaseEntries(loc[p].growid) :
             /\ transaction_log[i].amount = -30
             /\ transaction_log[i].old_balance = format_balance(50, 0, 0)
             /\ transaction_log[i].new_balance = format_balance(20, 0, 0)

-----------------------------------------------------------------------------
(* The parts of a balance *)

\* C26: wl, dl and bgl of every stored balance stay at or above zero after
\* any purchase, also when two purchases of one account interleave between
\* reading the balance and writing the change.
C26_PartsNeverNegative ==
    \A g \in DOMAIN users : NonNegative(users[g])

-----------------------------------------------------------------------------
(* Purchases on the event loop *)

\* Purchases alone, left only where they really suspend, with every
\* failure of a statement and every outcome of user.send.
NextAwaitPurchases ==
    \/ \E p \in Procs, u \in UserIds, q \in 1..MaxQty : BuySubmit(p, u, "a", q)
    \/ \E p \in Procs : PPProduct(p)
    \/ \E p \in Procs : PPBalance(p)
    \/ \E p \in Procs : PPSelect(p)
    \/ \E p \in Procs : UBRead(p)
    \/ \E p \in Procs : UBCommit(p)
    \/ \E p \in Procs : UBFail(p)
    \/ \E p \in Procs : PPMarkCommit(p)
    \/ \E p \in Procs : PPMarkFail(p)
    \/ \E p \in Procs : PPSend(p)

SpecAwaitPurchases == Init /\ [][NextAwaitPurchases]_vars

\* The purchases whose UPDATEs of product_stock were committed.
Marking == {p \in Purchases : loc[p].marked # {}}

\* C27: when purchases are left only at user.send, after their commit, they
\* behave as if run one after another: no unit is given to two purchases,
\* no part of a balance goes negative, and the counter of a product is the
\* number of its unused units.
C27_AwaitPurchasesSerial ==
    /\ \A p, q \in Marking : p # q => loc[p].marked \cap loc[q].marked = {}
    /\ \A p \in Marking : loc[p].flipped = Cardinality(loc[p].marked)
    /\ \A g \in DOMAIN users : NonNegative(users[g]) /\ Total(users[g]) >= 0
    /\ \A c \in DOMAIN products :
          products[c].stock = Cardinality(UnusedIds(product_stock, c))

\* A purchase ran from its start to its commit while another one was
\* suspended at user.send, and both were given units.
C27_Witness ==
    \E p, q \in Marking :
        /\ p # q
        /\ pc[p] = "pp_send" /\ pc[q] = "pp_send"
        /\ loc[p].user = loc[q].user

-----------------------------------------------------------------------------
(* The sign of a price *)

\* C29: a successful purchase never raised the buyer's total: for every
\* price that add_product or edit_product can store and every quantity that
\* reaches process_purchase, price x quantity is at least zero.
C29_PurchaseNeverCredits ==
    \A p \in Procs :
        Succeeded(p) =>
            /\ loc[p].price * loc[p].quantity >= 0
            /\ Total(loc[p].applied) <= 0

-----------------------------------------------------------------------------
(* Confirmed requests *)

\* C30: a deleteproduct or resetuser request changes the store only if the
\* admin who made it confirmed this very request with a check-mark before
\* the timeout: after a cross, a timeout, or a reaction that was added to
\* the message of another request (or to any other message), products and
\* balances are unchanged; so one reaction confirms at most one request.
C30_OnlyOwnConfirmationChanges ==
    [][\A p \in Procs :
          (loc[p].op \in {"admin_delete", "admin_reset"}
             /\ pc[p] # "done" /\ pc'[p] = "done")
          => \/ products' = products /\ users' = users
             \/ loc[p].reaction = "yes" /\ loc[p].message = p]_vars

=============================================================================
